---- MODULE Spec2Model ----
(***************************************************************************)
(* Document processor service (services/document-processor/main.py):       *)
(* upload, the background ingestion pipeline (extract, chunk, embed,       *)
(* relational transaction, vector-store upsert, error handler) and the     *)
(* two stores it writes.                                                   *)
(*                                                                         *)
(* A Python str is a sequence of one-character strings, a bytes object a   *)
(* sequence of byte values.  Every uuid.uuid4() call returns a value no    *)
(* other call returns; the model names the value by the call that minted   *)
(* it.  datetime.utcnow() is the value "ts"; a nullable column or optional *)
(* value is a sequence of at most one value.                               *)
(***************************************************************************)
EXTENDS Integers, Sequences, FiniteSets, TLC

\* ------------------------------------------------------------------ bounds

\* Number of uploads a behaviour holds.
MaxDocs == 2

\* settings.chunk_size, settings.chunk_overlap and settings.max_file_size
\* (environment-configurable), scaled down to the sample texts.
ChunkSize == 2
ChunkOverlap == 1
MaxFileSize == 8

\* The length of the vectors the loaded model gives (384 for the default
\* model, which is also the default of settings.embedding_dimension),
\* scaled down.
EmbeddingDimension == 2

\* ------------------------------------------------------------ Python str

\* str.isspace() on one character
IsSpace(c) == c \in {" ", "\n", "\t"}

RECURSIVE LStrip(_)
LStrip(s) == IF s # << >> /\ IsSpace(Head(s)) THEN LStrip(Tail(s)) ELSE s

RECURSIVE RStrip(_)
RStrip(s) ==
    IF s # << >> /\ IsSpace(s[Len(s)]) THEN RStrip(SubSeq(s, 1, Len(s) - 1)) ELSE s

\* str.strip()
\* A strip that removes nothing.
StripNothing(s) == s

Strip(s) == RStrip(LStrip(s))

\* str.split('.'): one piece more than there are delimiters
RECURSIVE SplitFrom(_, _, _)
SplitFrom(s, i, piece) ==
    IF i > Len(s) THEN << piece >>
    ELSE IF s[i] = "." THEN << piece >> \o SplitFrom(s, i + 1, << >>)
    ELSE SplitFrom(s, i + 1, Append(piece, s[i]))

Split(s) == SplitFrom(s, 1, << >>)

\* '. '.join(parts)
RECURSIVE Join(_)
Join(parts) ==
    IF parts = << >> THEN << >>
    ELSE IF Len(parts) = 1 THEN parts[1]
    ELSE parts[1] \o << ".", " " >> \o Join(Tail(parts))

Min(a, b) == IF a < b THEN a ELSE b

\* parts[:n], the first n pieces.
FirstN(parts, n) ==
    SubSeq(parts, 1, IF n > Len(parts) THEN Len(parts) ELSE n)

\* parts[-n:]: the slice starts at index -n, which Python counts from the end
\* when it is negative and from the front when it is not (so -0 is the front).
LastN(parts, n) ==
    LET start == IF -n < 0 THEN (IF Len(parts) - n < 0 THEN 0 ELSE Len(parts) - n)
                 ELSE (IF -n > Len(parts) THEN Len(parts) ELSE -n)
    IN  SubSeq(parts, start + 1, Len(parts))

\* ------------------------------------------------------------ chunk_text

\* A chunk dict numbered by the sentence it ends at.
ChunkDictBySentence(current_chunk, n, first, last) ==
    [text |-> Strip(current_chunk), index |-> last,
     start_sentence |-> first, end_sentence |-> last]

\* The dict appended to chunks at lines 275-280 and 292-297.
ChunkDict(current_chunk, n, first, last) ==
    [text |-> Strip(current_chunk), index |-> n,
     start_sentence |-> first, end_sentence |-> last]

\* A new chunk that starts with the sentence alone.
NewChunkNoCarry(current_chunk, sentence, overlap) == sentence

\* The buffer a new chunk starts with (lines 283-284): the last overlap
\* pieces of the closed one, then the sentence that did not fit.
NewChunk(current_chunk, sentence, overlap) ==
    LET overlap_text == Join(LastN(Split(current_chunk), overlap))
    IN  IF overlap_text # << >>
        THEN overlap_text \o << ".", " " >> \o sentence
        ELSE sentence

\* The for loop of chunk_text from sentence i (zero-based) on, then the
\* final append.
RECURSIVE ChunkLoop(_, _, _, _, _, _)
ChunkLoop(sentences, i, chunks, current_chunk, chunk_size, overlap) ==
    IF i >= Len(sentences)
    THEN IF Strip(current_chunk) # << >>
         THEN Append(chunks,
                     ChunkDict(current_chunk, Len(chunks),
                               Len(sentences) - Len(Split(current_chunk)),
                               Len(sentences)))
         ELSE chunks
    ELSE LET sentence == Strip(sentences[i + 1])
             current_size == Len(current_chunk)
         IN  IF sentence = << >>
             THEN ChunkLoop(sentences, i + 1, chunks, current_chunk, chunk_size, overlap)
             ELSE IF current_size + Len(sentence) > chunk_size /\ current_chunk # << >>
             THEN LET closed == ChunkDict(current_chunk, Len(chunks),
                                          i - Len(Split(current_chunk)), i)
                  IN  ChunkLoop(sentences, i + 1, Append(chunks, closed),
                                NewChunk(current_chunk, sentence, overlap),
                                chunk_size, overlap)
             ELSE ChunkLoop(sentences, i + 1, chunks,
                            IF current_chunk # << >>
                            THEN current_chunk \o << ".", " " >> \o sentence
                            ELSE sentence,
                            chunk_size, overlap)

chunk_text(text, chunk_size, overlap) ==
    IF Strip(text) = << >> THEN << >>
    ELSE ChunkLoop(Split(text), 0, << >>, << >>, chunk_size, overlap)

\* ---------------------------------------------------------- extract_text

\* str.lower() on one character, for the letters the sample filenames use.
Lower(c) ==
    CASE c = "P" -> "p" [] c = "D" -> "d" [] c = "F" -> "f" [] OTHER -> c

LowerStr(s) == [i \in DOMAIN s |-> Lower(s[i])]

\* filename.lower().split('.')[-1] if '.' in filename else ''
FileExt(filename) ==
    IF \E i \in DOMAIN filename : filename[i] = "."
    THEN LET parts == Split(LowerStr(filename)) IN parts[Len(parts)]
    ELSE << >>

\* One byte of UTF-8: the ASCII bytes the samples use; 255 (0xFF) starts no
\* UTF-8 sequence.
Chr(b) ==
    CASE b = 97 -> "a" [] b = 98 -> "b" [] b = 99 -> "c"
      [] b = 46 -> "." [] b = 32 -> " " [] b = 10 -> "\n" [] OTHER -> "?"

\* bytes.decode('utf-8'): the text, or UnicodeDecodeError
Decode(bytes) ==
    IF \E i \in DOMAIN bytes : bytes[i] >= 128
    THEN [ok |-> FALSE, text |-> << >>, exc |-> "UnicodeDecodeError"]
    ELSE [ok |-> TRUE, text |-> [i \in DOMAIN bytes |-> Chr(bytes[i])], exc |-> "none"]

\* text += part + "\n" over the pages of a PDF or the paragraphs of a DOCX
RECURSIVE ConcatLines(_)
ConcatLines(parts) ==
    IF parts = << >> THEN << >>
    ELSE parts[1] \o << "\n" >> \o ConcatLines(Tail(parts))

\* _extract_pdf_text / _extract_docx_text: parsed is what PyPDF2 or
\* python-docx makes of the bytes, [ok, parts]; a malformed file raises.
ExtractParsed(parsed) ==
    IF parsed.ok
    THEN [ok |-> TRUE, text |-> ConcatLines(parsed.parts), exc |-> "none"]
    ELSE [ok |-> FALSE, text |-> << >>, exc |-> "ParseError"]

\* The body of the try block of extract_text (lines 206-220).
ExtractInner(file) ==
    LET file_ext == FileExt(file.filename) IN
    IF file_ext = << "p", "d", "f" >> THEN ExtractParsed(file.parsed)
    ELSE IF file_ext \in {<< "d", "o", "c", "x" >>, << "d", "o", "c" >>}
    THEN ExtractParsed(file.parsed)
    ELSE IF file_ext \in {<< "t", "x", "t" >>, << "m", "d" >>} THEN Decode(file.bytes)
    ELSE LET r == Decode(file.bytes) IN
         IF r.ok THEN r
         ELSE [ok |-> FALSE, text |-> << >>, exc |-> "HTTPException 400 Unsupported file format"]

\* extract_text: every exception of the try block, the HTTPException of
\* line 217 included, is caught at line 221 and raised again as
\* HTTPException(400, "Failed to extract text: ...").
\* cause is the str(e) that the detail carries after the colon.
extract_text(file) ==
    LET r == ExtractInner(file) IN
    IF r.ok THEN [ok |-> TRUE, text |-> r.text, exc |-> "none", cause |-> "none"]
    ELSE [ok |-> FALSE, text |-> << >>,
          exc |-> "HTTPException 400 Failed to extract text", cause |-> r.exc]

\* ------------------------------------------------------------ the uploads

None == -1

Bytes(str) == [i \in DOMAIN str |->
    CASE str[i] = "a" -> 97 [] str[i] = "b" -> 98 [] str[i] = "c" -> 99
      [] str[i] = "." -> 46 [] str[i] = " " -> 32 [] OTHER -> 10]

NotParsed == [ok |-> FALSE, parts |-> << >>]

\* An uploaded file: its name, its body, the size the request declares
\* (UploadFile.size, None when absent) and what the binary-format parser
\* makes of the body.
UploadedFile(filename, bytes, size, parsed) ==
    [filename |-> filename, bytes |-> bytes, size |-> size, parsed |-> parsed]

TxtName == << "n", ".", "t", "x", "t" >>
PdfName == << "n", ".", "P", "D", "F" >>
BinName == << "n" >>
DocName == << "n", ".", "d", "o", "c" >>
UnknownName == << "n", ".", "b" >>

TwoChunkText == << "a", ".", " ", "b", ".", " ", "c" >>
DotsText == << ".", " ", "." >>

SampleFiles ==
    { UploadedFile(TxtName, Bytes(TwoChunkText), Len(TwoChunkText), NotParsed),
      UploadedFile(TxtName, << >>, 0, NotParsed),
      UploadedFile(TxtName, Bytes(DotsText), None, NotParsed),
      UploadedFile(BinName, << 255 >>, 1, NotParsed),
      UploadedFile(PdfName, << 255 >>, 1, NotParsed),
      UploadedFile(PdfName, << 255, 97 >>, 2, [ok |-> TRUE, parts |-> << << "a", "b" >> >>]),
      UploadedFile(TxtName, [i \in 1..(MaxFileSize + 1) |-> 97], MaxFileSize + 1, NotParsed),
      UploadedFile(TxtName, [i \in 1..(MaxFileSize + 1) |-> 32], None, NotParsed) }

\* --------------------------------------------------------------- state

NULL == << >>
Some(v) == << v >>

\* uuid.uuid4() at call site `site`, for request or document d, iteration i
Uuid4(site, d, i) == << site, d, i >>

DocIds == 1..MaxDocs

VARIABLES
    upload,          \* per upload request: position in upload_document, file, response
    document_store,  \* committed rows of documents.document_store, by id
    embeddings,      \* committed rows of documents.embeddings
    points,          \* points of the Qdrant collection
    task,            \* per document: position and locals of process_document_background
    log,             \* per document: the steps its pipeline run has executed, and
                     \* how its transaction and its error update ended
    upsert_calls,    \* per document: the points lists passed to client.upsert
    metrics,         \* ACTIVE_PROCESSES, DOCUMENTS_PROCESSED by label, EMBEDDINGS_GENERATED
    status_req,      \* the GET /documents/{id}/status request in flight and its response
    search_req,      \* the POST /documents/search request in flight and its response
    call,            \* a direct call of chunk_text or extract_text and what it returned
    service          \* the settings, the progress of lifespan, what it has set up, and
                     \* the health request in flight with its response

vars == << upload, document_store, embeddings, points, task, log, upsert_calls, metrics,
           status_req, search_req, call, service >>

NoFile == UploadedFile(<< >>, << >>, None, NotParsed)

NoTask ==
    [pc |-> "none", text |-> << >>, chunks |-> << >>, embeddings |-> << >>,
     i |-> 0, pending |-> NULL, rows |-> << >>, exc |-> "none"]

\* No status request in flight.
NoStatusRequest ==
    [pc |-> "idle", document_id |-> 0, row |-> NULL,
     response |-> [code |-> 0, document_id |-> 0, status |-> NULL, progress |-> 0,
                   chunks_processed |-> 0, total_chunks |-> 0]]

\* No search request in flight.
NoSearchRequest ==
    [pc |-> "idle", body |-> [query |-> NULL, limit |-> NULL, threshold |-> NULL],
     query |-> NULL, limit |-> 0, threshold |-> 0,
     query_embedding |-> << >>, hits |-> << >>, calls |-> << >>,
     response |-> [code |-> 0, results |-> << >>]]

\* No direct call made.
NoCall ==
    [fn |-> "none", pc |-> "done", text |-> << >>, chunk_size |-> 0, overlap |-> 0,
     file |-> NoFile, result |-> << >>]

\* No health request in flight.
NoHealthRequest == [pc |-> "idle", db |-> "not asked", vector |-> "not asked", code |-> 0]

\* The process before lifespan has run, with settings.embedding_dimension
\* as configured: no pool, no client, no collection, no model.
Down(embedding_dimension) ==
    [pc |-> "connect_db", embedding_dimension |-> embedding_dimension,
     pool |-> FALSE, client |-> FALSE, collection |-> NULL, model |-> NULL,
     health |-> NoHealthRequest]

\* The process after lifespan has set everything up: the collection has the
\* configured size and the loaded model gives vectors of model_dimension.
Serving(embedding_dimension, model_dimension) ==
    [pc |-> "serving", embedding_dimension |-> embedding_dimension,
     pool |-> TRUE, client |-> TRUE, collection |-> Some(embedding_dimension),
     model |-> Some(model_dimension), health |-> NoHealthRequest]

\* The service after startup, with empty stores and nothing in flight.
InitService ==
    /\ upload = [r \in DocIds |-> [pc |-> "none", file |-> NoFile, response |-> "none"]]
    /\ document_store = << >>
    /\ embeddings = {}
    /\ task = [d \in DocIds |-> NoTask]
    /\ log = [d \in DocIds |-> << >>]
    /\ upsert_calls = [d \in DocIds |-> << >>]
    /\ metrics = [active |-> 0, submitted |-> 0, success |-> 0, error |-> 0,
                  embeddings_generated |-> 0]
    /\ status_req = NoStatusRequest

Init ==
    /\ InitService
    /\ points = {}
    /\ search_req = NoSearchRequest
    /\ call = NoCall
    /\ service = Serving(EmbeddingDimension, EmbeddingDimension)

Inc(m, label) == [m EXCEPT ![label] = @ + 1]
Dec(m, label) == [m EXCEPT ![label] = @ - 1]

\* ----------------------------------------------------- upload_document

\* `file.size and file.size > settings.max_file_size` (line 402)
TooLarge(file) == file.size # None /\ file.size # 0 /\ file.size > MaxFileSize

\* UploadBegin with add_task placed before the INSERT.
UploadBeginScheduleFirst(file) ==
    /\ service.pc = "serving"
    /\ \E r \in DocIds :
        /\ upload[r].pc = "none"
        /\ \A q \in DocIds : q < r => upload[q].pc # "none"
        /\ upload' = [upload EXCEPT ![r] =
              IF TooLarge(file)
              THEN [pc |-> "done", file |-> file, response |-> "413"]
              ELSE [pc |-> "insert", file |-> file, response |-> "none"]]
        /\ task' = [task EXCEPT ![r].pc = IF TooLarge(file) THEN "none" ELSE "scheduled"]
    /\ UNCHANGED << document_store, embeddings, points, log, upsert_calls, metrics,
                   status_req, search_req, call, service >>

\* A request arrives: the size check, then the identifier is minted and
\* the handler awaits file.read() and the INSERT.
UploadBegin(file) ==
    /\ service.pc = "serving"
    /\ \E r \in DocIds :
        /\ upload[r].pc = "none"
        /\ \A q \in DocIds : q < r => upload[q].pc # "none"
        /\ upload' = [upload EXCEPT ![r] =
              IF TooLarge(file)
              THEN [pc |-> "done", file |-> file, response |-> "413"]
              ELSE [pc |-> "insert", file |-> file, response |-> "none"]]
    /\ UNCHANGED << document_store, embeddings, points, task, log, upsert_calls, metrics,
                   status_req, search_req, call, service >>

\* The row of the INSERT at lines 417-421.
NewDocument(file, file_content) ==
    [filename |-> file.filename, file_size |-> Len(file_content),
     status |-> "processing", content |-> NULL, created_at |-> "ts",
     processed_at |-> NULL]

\* file.read() and the INSERT: the row is committed, or one of the two
\* raises and the handler answers 500 (lines 440-443).
UploadInsert(r) ==
    /\ upload[r].pc = "insert"
    /\ \E ok \in BOOLEAN :
        IF ok
        THEN /\ document_store' =
                  [id \in DOMAIN document_store \cup {r} |->
                      IF id = r THEN NewDocument(upload[r].file, upload[r].file.bytes)
                      ELSE document_store[id]]
             /\ upload' = [upload EXCEPT ![r].pc = "schedule"]
             /\ UNCHANGED metrics
        ELSE /\ upload' = [upload EXCEPT ![r].pc = "done", ![r].response = "500"]
             /\ metrics' = Inc(metrics, "error")
             /\ UNCHANGED document_store
    /\ UNCHANGED << embeddings, points, task, log, upsert_calls,
                   status_req, search_req, call, service >>

\* background_tasks.add_task, the submitted counter and the response
\* (lines 424-438); the task runs after the response is sent.
UploadSchedule(r) ==
    /\ upload[r].pc = "schedule"
    /\ task' = [task EXCEPT ![r].pc = "scheduled"]
    /\ metrics' = Inc(metrics, "submitted")
    /\ upload' = [upload EXCEPT ![r].pc = "done", ![r].response = "processing"]
    /\ UNCHANGED << document_store, embeddings, points, log, upsert_calls,
                   status_req, search_req, call, service >>

\* ------------------------------------------- process_document_background

\* An exception that is recorded while the run stays where it is.
RaiseIgnored(t, exc) == [t EXCEPT !.exc = exc, !.pending = NULL, !.rows = << >>]

\* An exception raised inside the try block: control goes to the except
\* clause of line 517 and the open transaction, if any, is rolled back.
Raise(t, exc) == [t EXCEPT !.pc = "except", !.exc = exc, !.pending = NULL, !.rows = << >>]

\* ACTIVE_PROCESSES.inc() and extract_text (lines 447-452)
Extract(d) ==
    /\ task[d].pc = "scheduled"
    /\ LET r == extract_text(upload[d].file) IN
       task' = [task EXCEPT ![d] =
                  IF r.ok THEN [@ EXCEPT !.pc = "chunk", !.text = r.text]
                  ELSE Raise(@, r.exc)]
    /\ metrics' = Inc(metrics, "active")
    /\ log' = [log EXCEPT ![d] = Append(@, "extract")]
    /\ UNCHANGED << upload, document_store, embeddings, points, upsert_calls,
                   status_req, search_req, call, service >>

\* Chunk without the check of line 461: an empty chunk list goes on to the
\* embedder.
ChunkNoEmptyCheck(d) ==
    /\ task[d].pc = "chunk"
    /\ task' = [task EXCEPT ![d].pc = "encode",
                            ![d].chunks = chunk_text(task[d].text, ChunkSize, ChunkOverlap)]
    /\ log' = [log EXCEPT ![d] = Append(@, "chunk")]
    /\ UNCHANGED << upload, document_store, embeddings, points, upsert_calls, metrics,
                   status_req, search_req, call, service >>

\* chunk_text and `if not chunks: raise` (lines 455-462)
Chunk(d) ==
    /\ task[d].pc = "chunk"
    /\ LET chunks == chunk_text(task[d].text, ChunkSize, ChunkOverlap) IN
       task' = [task EXCEPT ![d] =
                  IF chunks = << >> THEN Raise(@, "No text content found in document")
                  ELSE [@ EXCEPT !.pc = "encode", !.chunks = chunks]]
    /\ log' = [log EXCEPT ![d] = Append(@, "chunk")]
    /\ UNCHANGED << upload, document_store, embeddings, points, upsert_calls, metrics,
                   status_req, search_req, call, service >>

\* The model's vector for one text: a fixed-length vector that the text
\* determines.
Vector(text) ==
    [k \in 1..EmbeddingDimension |->
        IF k = 1 THEN Len(text) ELSE Cardinality({i \in DOMAIN text : text[i] = "."})]

\* model.encode(texts): one vector per text, in order
encode(texts) == [i \in DOMAIN texts |-> Vector(texts[i])]

\* chunk_texts and model_manager.encode (lines 465-466)
Encode(d) ==
    /\ task[d].pc = "encode"
    /\ \E ok \in BOOLEAN :
        task' = [task EXCEPT ![d] =
                   IF ok
                   THEN [@ EXCEPT !.pc = "update",
                                  !.embeddings =
                                      encode([i \in DOMAIN task[d].chunks |->
                                                 task[d].chunks[i].text])]
                   ELSE Raise(@, "encode failed")]
    /\ log' = [log EXCEPT ![d] = Append(@, "encode")]
    /\ UNCHANGED << upload, document_store, embeddings, points, upsert_calls, metrics,
                   status_req, search_req, call, service >>

\* zip(chunks, embeddings): as long as the shorter of the two
Zip(a, b) ==
    [i \in 1..(IF Len(a) < Len(b) THEN Len(a) ELSE Len(b)) |-> << a[i], b[i] >>]

\* The UPDATE of lines 472-476, staged in the open transaction.
ProcessedUpdate(text) ==
    [content |-> Some(text), processed_at |-> Some("ts"), status |-> "processed"]

\* EmbeddingRow with the chunk index counted from one.
EmbeddingRowOneBased(d, i, chunk, embedding) ==
    [id |-> Uuid4("embedding_id", d, i), document_id |-> d, chunk_index |-> i + 1,
     chunk_text |-> chunk.text, chunk_metadata |-> chunk, embedding |-> embedding]

\* The row of the INSERT at lines 483-487 for pair i (zero-based) of the zip.
EmbeddingRow(d, i, chunk, embedding) ==
    [id |-> Uuid4("embedding_id", d, i), document_id |-> d, chunk_index |-> i,
     chunk_text |-> chunk.text, chunk_metadata |-> chunk, embedding |-> embedding]

\* pool.acquire(), conn.transaction() and the UPDATE (lines 469-476): the
\* update is staged, visible to no other connection until the commit.
TxnUpdate(d) ==
    /\ task[d].pc = "update"
    /\ \E ok \in BOOLEAN :
        /\ task' = [task EXCEPT ![d] =
                   IF ok
                   THEN [@ EXCEPT !.pc = "insert", !.i = 0,
                                  !.pending = Some(ProcessedUpdate(task[d].text))]
                   ELSE Raise(@, "transaction failed")]
        /\ log' = [log EXCEPT ![d] = IF ok THEN Append(@, "transaction")
                                       ELSE @ \o << "transaction", "rollback" >>]
    /\ UNCHANGED << upload, document_store, embeddings, points, upsert_calls, metrics,
                   status_req, search_req, call, service >>

\* TxnInsert with the INSERT executed outside the transaction: the row is
\* committed at once and no rollback removes it.
TxnInsertAutocommit(d) ==
    /\ task[d].pc = "insert"
    /\ LET pairs == Zip(task[d].chunks, task[d].embeddings)
           i == task[d].i
       IN  /\ i < Len(pairs)
           /\ \E ok \in BOOLEAN :
               /\ task' = [task EXCEPT ![d] =
                          IF ok THEN [@ EXCEPT !.i = i + 1]
                          ELSE Raise(@, "transaction failed")]
               /\ embeddings' =
                    IF ok
                    THEN embeddings \cup {EmbeddingRow(d, i, pairs[i + 1][1], pairs[i + 1][2])}
                    ELSE embeddings
               /\ log' = [log EXCEPT ![d] = IF ok THEN @ ELSE Append(@, "rollback")]
    /\ UNCHANGED << upload, document_store, points, upsert_calls, metrics,
                   status_req, search_req, call, service >>

\* One iteration of the loop of lines 479-487: the INSERT is staged, or it
\* raises and the transaction rolls back.
TxnInsert(d) ==
    /\ task[d].pc = "insert"
    /\ LET pairs == Zip(task[d].chunks, task[d].embeddings)
           i == task[d].i
       IN  /\ i < Len(pairs)
           /\ \E ok \in BOOLEAN :
               /\ task' = [task EXCEPT ![d] =
                          IF ok
                          THEN [@ EXCEPT !.i = i + 1,
                                         !.rows = Append(@, EmbeddingRow(d, i, pairs[i + 1][1],
                                                                         pairs[i + 1][2]))]
                          ELSE Raise(@, "transaction failed")]
               /\ log' = [log EXCEPT ![d] = IF ok THEN @ ELSE Append(@, "rollback")]
    /\ UNCHANGED << upload, document_store, embeddings, points, upsert_calls, metrics,
                   status_req, search_req, call, service >>

\* The staged UPDATE without its WHERE clause: every row is written.
ApplyUpdateAllRows(store, d, pending) ==
    [id \in DOMAIN store |->
        IF pending # NULL
        THEN [store[id] EXCEPT !.content = pending[1].content,
                               !.processed_at = pending[1].processed_at,
                               !.status = pending[1].status]
        ELSE store[id]]

\* document_store after the staged UPDATE ... WHERE id = d is applied
ApplyUpdate(store, d, pending) ==
    [id \in DOMAIN store |->
        IF id = d /\ pending # NULL
        THEN [store[id] EXCEPT !.content = pending[1].content,
                               !.processed_at = pending[1].processed_at,
                               !.status = pending[1].status]
        ELSE store[id]]

Range(seq) == {seq[i] : i \in DOMAIN seq}

\* TxnCommit with a failed commit dropped instead of raised: the run goes
\* on to the vector store.
TxnCommitContinue(d) ==
    /\ task[d].pc = "insert"
    /\ task[d].i = Len(Zip(task[d].chunks, task[d].embeddings))
    /\ \E ok \in BOOLEAN :
        IF ok
        THEN /\ document_store' = ApplyUpdate(document_store, d, task[d].pending)
             /\ embeddings' = embeddings \cup Range(task[d].rows)
             /\ log' = [log EXCEPT ![d] = Append(@, "commit")]
        ELSE /\ log' = [log EXCEPT ![d] = Append(@, "rollback")]
             /\ UNCHANGED << document_store, embeddings >>
    /\ task' = [task EXCEPT ![d].pc = "upsert", ![d].pending = NULL, ![d].rows = << >>]
    /\ UNCHANGED << upload, points, upsert_calls, metrics,
                   status_req, search_req, call, service >>

\* Leaving `async with conn.transaction()` (line 470) after the loop: the
\* staged update and rows are committed together, or the commit raises and
\* nothing is.
TxnCommit(d) ==
    /\ task[d].pc = "insert"
    /\ task[d].i = Len(Zip(task[d].chunks, task[d].embeddings))
    /\ \E ok \in BOOLEAN :
        IF ok
        THEN /\ document_store' = ApplyUpdate(document_store, d, task[d].pending)
             /\ embeddings' = embeddings \cup Range(task[d].rows)
             /\ task' = [task EXCEPT ![d].pc = "upsert", ![d].pending = NULL,
                                     ![d].rows = << >>]
             /\ log' = [log EXCEPT ![d] = Append(@, "commit")]
        ELSE /\ task' = [task EXCEPT ![d] = Raise(@, "transaction failed")]
             /\ log' = [log EXCEPT ![d] = Append(@, "rollback")]
             /\ UNCHANGED << document_store, embeddings >>
    /\ UNCHANGED << upload, points, upsert_calls, metrics,
                   status_req, search_req, call, service >>

\* The PointStruct of lines 492-502 for pair i (zero-based) of the zip.
Point(d, filename, i, chunk, embedding) ==
    [id |-> Uuid4("point_id", d, i), vector |-> embedding,
     payload |-> [document_id |-> d, filename |-> filename, chunk_index |-> i,
                  chunk_text |-> chunk.text, metadata |-> chunk]]

\* The points list built at lines 490-502.
Points(d, filename, chunks, vectors) ==
    LET pairs == Zip(chunks, vectors) IN
    [k \in DOMAIN pairs |-> Point(d, filename, k - 1, pairs[k][1], pairs[k][2])]

\* What the except clause of line 517 catches when client.upsert raises.
UpsertRaised(t) == Raise(t, "upsert failed")

\* The collection takes only vectors of the size it was created with.
VectorFits(vector) == service.collection = Some(Len(vector))

\* client.upsert (lines 504-507), then the counters and the finally clause
\* on success (lines 509-515, 538); a raise goes to the except clause.
Upsert(d) ==
    /\ task[d].pc = "upsert"
    /\ LET pts == Points(d, upload[d].file.filename, task[d].chunks, task[d].embeddings) IN
       /\ upsert_calls' = [upsert_calls EXCEPT ![d] = Append(@, pts)]
       /\ \E ok \in BOOLEAN :
           IF ok /\ \A k \in DOMAIN pts : VectorFits(pts[k].vector)
           THEN /\ points' = points \cup Range(pts)
                /\ task' = [task EXCEPT ![d].pc = "done"]
                /\ metrics' = [metrics EXCEPT
                                 !.embeddings_generated = @ + Len(task[d].embeddings),
                                 !.success = @ + 1, !.active = @ - 1]
           ELSE /\ task' = [task EXCEPT ![d] = UpsertRaised(@)]
                /\ UNCHANGED << points, metrics >>
    /\ log' = [log EXCEPT ![d] = Append(@, "upsert")]
    /\ UNCHANGED << upload, document_store, embeddings,
                   status_req, search_req, call, service >>

\* ErrorUpdate without the status column: only the timestamp is written.
ErrorUpdateNoStatus(store, d) ==
    [id \in DOMAIN store |->
        IF id = d THEN [store[id] EXCEPT !.processed_at = Some("ts")] ELSE store[id]]

\* The UPDATE of lines 527-531.
ErrorUpdate(store, d) ==
    [id \in DOMAIN store |->
        IF id = d
        THEN [store[id] EXCEPT !.status = "error", !.processed_at = Some("ts")]
        ELSE store[id]]

\* The except clause with the gauge decremented after the status update
\* instead of in a finally clause: a failing update skips it.
HandleErrorNoFinally(d) ==
    /\ task[d].pc = "except"
    /\ \E ok \in BOOLEAN :
        /\ document_store' = IF ok THEN ErrorUpdate(document_store, d) ELSE document_store
        /\ log' = [log EXCEPT ![d] = Append(@, IF ok THEN "error_update" ELSE "error_update_failed")]
        /\ metrics' = [metrics EXCEPT !.error = @ + 1,
                                      !.active = IF ok THEN @ - 1 ELSE @]
    /\ task' = [task EXCEPT ![d].pc = "done"]
    /\ UNCHANGED << upload, embeddings, points, upsert_calls,
                   status_req, search_req, call, service >>

\* The except clause (lines 517-535) and the finally clause: the status
\* update, whose own failure is logged and dropped, then the counters.
HandleError(d) ==
    /\ task[d].pc = "except"
    /\ \E ok \in BOOLEAN :
        /\ document_store' = IF ok THEN ErrorUpdate(document_store, d) ELSE document_store
        /\ log' = [log EXCEPT ![d] = Append(@, IF ok THEN "error_update" ELSE "error_update_failed")]
    /\ task' = [task EXCEPT ![d].pc = "done"]
    /\ metrics' = [metrics EXCEPT !.error = @ + 1, !.active = @ - 1]
    /\ UNCHANGED << upload, embeddings, points, upsert_calls,
                   status_req, search_req, call, service >>

\* ------------------------------------------------ get_processing_status

\* The most uploads a behaviour makes while requests of the read endpoints
\* arrive.
MaxUploads == 1

\* progress, in tenths: 1.0 for processed, 0.0 for pending, 0.5 otherwise.
Progress(status) ==
    IF status = "processed" THEN 10 ELSE IF status = "pending" THEN 0 ELSE 5

\* SELECT COUNT(*) FROM documents.embeddings WHERE document_id = $1.
CountChunks(document_id) ==
    Cardinality({ e \in embeddings : e.document_id = document_id })

\* A response that carries only a status code (the HTTPException ones).
StatusError(code) == [NoStatusRequest.response EXCEPT !.code = code]

\* A body that leaves the chunk counters at zero.
StatusBodyNoCount(document_id, row, chunk_count) ==
    [code |-> 200, document_id |-> document_id, status |-> Some(row.status),
     progress |-> Progress(row.status), chunks_processed |-> 0, total_chunks |-> 0]

\* The ProcessingStatus body built from the row and the count.
StatusBody(document_id, row, chunk_count) ==
    [code |-> 200, document_id |-> document_id, status |-> Some(row.status),
     progress |-> Progress(row.status),
     chunks_processed |-> chunk_count, total_chunks |-> chunk_count]

\* The request arrives and the handler awaits the SELECT of the row: no row
\* is a 404, a failing query a 500, else it goes on to the count.
StatusFetchRow(document_id) ==
    /\ service.pc = "serving"
    /\ status_req.pc \in {"idle", "done"}
    /\ \E ok \in BOOLEAN :
        status_req' =
            IF ~ok
            THEN [pc |-> "done", document_id |-> document_id, row |-> NULL,
                  response |-> StatusError(500)]
            ELSE IF document_id \notin DOMAIN document_store
            THEN [pc |-> "done", document_id |-> document_id, row |-> NULL,
                  response |-> StatusError(404)]
            ELSE [pc |-> "count", document_id |-> document_id,
                  row |-> Some(document_store[document_id]),
                  response |-> NoStatusRequest.response]
    /\ UNCHANGED << upload, document_store, embeddings, points, task, log,
                   upsert_calls, metrics, search_req, call, service >>

\* The handler awaits the SELECT COUNT(*) and answers.
StatusCount ==
    /\ status_req.pc = "count"
    /\ \E ok \in BOOLEAN :
        status_req' = [status_req EXCEPT
            !.pc = "done",
            !.response =
                IF ok
                THEN StatusBody(status_req.document_id, status_req.row[1],
                                CountChunks(status_req.document_id))
                ELSE StatusError(500)]
    /\ UNCHANGED << upload, document_store, embeddings, points, task, log,
                   upsert_calls, metrics, search_req, call, service >>

\* An upload, while fewer than MaxUploads have been made.
UploadWhileFew(file) ==
    /\ upload[MaxUploads].pc = "none"
    /\ UploadBegin(file)

\* ---------------------------------------------------------- direct calls

\* The texts, sizes and overlaps chunk_text is called with.
MaxTextLen == 5
MaxChunkSize == 3
MaxOverlap == 2
Alphabet == {"a", "b", ".", " "}
Texts == UNION { [1..n -> Alphabet] : n \in 0..MaxTextLen }

ChunkCalls ==
    { [fn |-> "chunk_text", pc |-> "call", text |-> text, chunk_size |-> chunk_size,
       overlap |-> overlap, file |-> NoFile, result |-> << >>] :
        text \in Texts, chunk_size \in 1..MaxChunkSize, overlap \in 0..MaxOverlap }

\* The files extract_text is called with: every sample extension, bodies
\* with and without a byte that is not UTF-8, and each parser outcome.
MaxBytesLen == 2
Bodies == UNION { [1..n -> {97, 46, 255}] : n \in 0..MaxBytesLen }
Parses ==
    { NotParsed, [ok |-> TRUE, parts |-> << >>],
      [ok |-> TRUE, parts |-> << << "a", "." >>, << "b" >> >>] }

ExtractCalls ==
    { [fn |-> "extract_text", pc |-> "call", text |-> << >>, chunk_size |-> 0,
       overlap |-> 0, file |-> UploadedFile(filename, bytes, Len(bytes), parsed),
       result |-> << >>] :
        filename \in {TxtName, PdfName, DocName, BinName, UnknownName},
        bytes \in Bodies, parsed \in Parses }

\* DocumentProcessor.chunk_text(text, chunk_size, overlap) returns.
CallChunkText ==
    /\ call.fn = "chunk_text" /\ call.pc = "call"
    /\ call' = [call EXCEPT !.pc = "done",
                            !.result = chunk_text(call.text, call.chunk_size, call.overlap)]
    /\ UNCHANGED << upload, document_store, embeddings, points, task, log,
                   upsert_calls, metrics, status_req, search_req, service >>

\* DocumentProcessor.extract_text(file_content, filename) returns or raises.
CallExtractText ==
    /\ call.fn = "extract_text" /\ call.pc = "call"
    /\ call' = [call EXCEPT !.pc = "done", !.result = extract_text(call.file)]
    /\ UNCHANGED << upload, document_store, embeddings, points, task, log,
                   upsert_calls, metrics, status_req, search_req, service >>

\* ------------------------------------------------------ search_documents

\* SearchRequest (lines 315-318): limit in 1..100, threshold in 0.0..1.0.
\* Scores and thresholds are counted in tenths.
LimitMax == 100
ThresholdMax == 10
DefaultLimit == 10
DefaultThreshold == 7

\* The value of a field of the request body, or its default when the body
\* leaves it out.
Field(given, default) == IF given = NULL THEN default ELSE given[1]

\* A validation that puts no upper bound on limit.
SearchRequestValidNoUpper(query, limit, threshold) ==
    /\ query # NULL
    /\ limit >= 1
    /\ threshold >= 0 /\ threshold <= ThresholdMax

SearchRequestValid(query, limit, threshold) ==
    /\ query # NULL
    /\ limit >= 1 /\ limit <= LimitMax
    /\ threshold >= 0 /\ threshold <= ThresholdMax

\* The request bodies that arrive: two queries with limits and thresholds
\* inside their ranges, a body that leaves limit and threshold out, and
\* bodies with no query, or a limit or a threshold outside its range.
SearchRequests ==
    { [query |-> Some(q), limit |-> Some(l), threshold |-> Some(t)] :
        q \in { << "c" >>, << "a", ".", "b", "b", "b" >> }, l \in {1, 2}, t \in {0, 8} }
    \cup { [query |-> Some(<< "c" >>), limit |-> NULL, threshold |-> NULL] }
    \cup { [query |-> NULL, limit |-> Some(1), threshold |-> Some(0)] }
    \cup { [query |-> Some(<< "c" >>), limit |-> Some(l), threshold |-> Some(0)] :
             l \in {0, LimitMax + 1} }
    \cup { [query |-> Some(<< "c" >>), limit |-> Some(1), threshold |-> Some(t)] :
             t \in {-1, ThresholdMax + 1} }

\* The files uploaded while searches run: texts of two chunks and of one.
SearchFiles ==
    { UploadedFile(TxtName, Bytes(<< "a", ".", "b", ".", "c", "c" >>), 6, NotParsed),
      UploadedFile(TxtName, Bytes(<< "c" >>), 1, NotParsed) }

RECURSIVE SumAbsDiff(_, _, _)
SumAbsDiff(a, b, k) ==
    IF k = 0 THEN 0
    ELSE (IF a[k] > b[k] THEN a[k] - b[k] ELSE b[k] - a[k]) + SumAbsDiff(a, b, k - 1)

\* The similarity the vector store computes for a stored vector, in tenths:
\* the closer to the query vector, the higher.
Score(query_vector, vector) ==
    ThresholdMax - Min(ThresholdMax, SumAbsDiff(query_vector, vector, Len(vector)))

ScoredPoint(point, query_vector) ==
    [id |-> point.id, score |-> Score(query_vector, point.vector),
     payload |-> point.payload]

\* What client.search may return when the store honours its contract: the
\* limit best points among those that score at least score_threshold, the
\* best first; which of several equal scores comes first is the store's
\* choice.
SearchHits(query_vector, limit, score_threshold) ==
    LET scored == { ScoredPoint(p, query_vector) : p \in points }
        passing == { h \in scored : h.score >= score_threshold }
        n == Min(limit, Cardinality(passing))
    IN  { hits \in [1..n -> passing] :
            /\ \A i, j \in 1..n : i < j =>
                   hits[i] # hits[j] /\ hits[i].score >= hits[j].score
            /\ \A h \in passing :
                   (\A i \in 1..n : hits[i] # h) =>
                       \A i \in 1..n : hits[i].score >= h.score }

FormatReversed(search_results) ==
    [k \in DOMAIN search_results |->
        LET result == search_results[Len(search_results) + 1 - k] IN
        [document_id |-> result.payload.document_id,
         filename |-> result.payload.filename,
         chunk_text |-> result.payload.chunk_text,
         similarity_score |-> result.score,
         metadata |-> result.payload.metadata]]

\* The SearchResult list built at lines 557-565.
Format(search_results) ==
    [k \in DOMAIN search_results |->
        LET result == search_results[k] IN
        [document_id |-> result.payload.document_id,
         filename |-> result.payload.filename,
         chunk_text |-> result.payload.chunk_text,
         similarity_score |-> result.score,
         metadata |-> result.payload.metadata]]

\* A request arrives: a body that fails the SearchRequest validation is
\* answered 422 before the handler runs; else the handler awaits the
\* encoding of the query, and a raise is a 500.
SearchBegin(body) ==
    LET query == body.query
        limit == Field(body.limit, DefaultLimit)
        threshold == Field(body.threshold, DefaultThreshold)
        valid == SearchRequestValid(query, limit, threshold)
    IN
    /\ service.pc = "serving"
    /\ search_req.pc \in {"idle", "done"}
    /\ \E ok \in BOOLEAN :
        search_req' =
            [pc |-> IF valid /\ ok THEN "search" ELSE "done",
             body |-> body,
             query |-> query, limit |-> limit, threshold |-> threshold,
             query_embedding |-> IF valid /\ ok THEN encode(<< query[1] >>) ELSE << >>,
             hits |-> << >>,
             calls |-> IF valid THEN << "encode" >> ELSE << >>,
             response |->
                 [code |-> IF ~valid THEN 422 ELSE IF ok THEN 0 ELSE 500,
                  results |-> << >>]]
    /\ UNCHANGED << upload, document_store, embeddings, points, task, log,
                   upsert_calls, metrics, status_req, call, service >>

\* client.search and the formatting of its hits (no await in between); a
\* raise is a 500.
SearchStore ==
    /\ search_req.pc = "search"
    /\ \/ /\ VectorFits(search_req.query_embedding[1])
          /\ \E hits \in SearchHits(search_req.query_embedding[1], search_req.limit,
                                   search_req.threshold) :
            search_req' = [search_req EXCEPT
                !.pc = "done", !.hits = hits,
                !.calls = Append(@, "search"),
                !.response = [code |-> 200, results |-> Format(hits)]]
       \/ search_req' = [search_req EXCEPT
                !.pc = "done",
                !.calls = Append(@, "search"),
                !.response = [code |-> 500, results |-> << >>]]
    /\ UNCHANGED << upload, document_store, embeddings, points, task, log,
                   upsert_calls, metrics, status_req, call, service >>

\* ------------------------------------------------- lifespan, health_check

\* The values settings.embedding_dimension is configured with.
ConfiguredDimensions == 1..(EmbeddingDimension + 1)

\* lifespan raises: the application does not start.
StartupFailed == [service EXCEPT !.pc = "failed"]

\* db_manager.connect(): the pool is created, or the raise ends startup.
ConnectDb ==
    /\ service.pc = "connect_db"
    /\ \E ok \in BOOLEAN :
        service' = IF ok THEN [service EXCEPT !.pc = "connect_vector", !.pool = TRUE]
                   ELSE StartupFailed
    /\ UNCHANGED << upload, document_store, embeddings, points, task, log,
                   upsert_calls, metrics, status_req, search_req, call >>

\* vector_manager.connect(): the client, and the collection created with
\* size settings.embedding_dimension when there is none yet.
ConnectVector ==
    /\ service.pc = "connect_vector"
    /\ \E ok \in BOOLEAN :
        service' =
            IF ok
            THEN [service EXCEPT
                    !.pc = "load_model", !.client = TRUE,
                    !.collection = IF @ = NULL THEN Some(service.embedding_dimension)
                                   ELSE @]
            ELSE StartupFailed
    /\ UNCHANGED << upload, document_store, embeddings, points, task, log,
                   upsert_calls, metrics, status_req, search_req, call >>

\* model_manager.load_model(), after which the application serves requests.
LoadModel ==
    /\ service.pc = "load_model"
    /\ \E ok \in BOOLEAN :
        service' = IF ok THEN [service EXCEPT !.pc = "serving",
                                              !.model = Some(EmbeddingDimension)]
                   ELSE StartupFailed
    /\ UNCHANGED << upload, document_store, embeddings, points, task, log,
                   upsert_calls, metrics, status_req, search_req, call >>

\* A health answer that does not depend on the vector store.
HealthCodeNoVector(vector_ok, model) ==
    IF model # NULL THEN 200 ELSE 503

\* The answer of health_check once SELECT 1 has succeeded.
HealthCode(vector_ok, model) ==
    IF vector_ok /\ model # NULL THEN 200 ELSE 503

\* A health request arrives and the handler awaits SELECT 1; a raise is
\* a 503.
HealthDb ==
    /\ service.pc = "serving"
    /\ service.health.pc \in {"idle", "done"}
    /\ \E ok \in BOOLEAN :
        service' = [service EXCEPT !.health =
            IF ok /\ service.pool
            THEN [pc |-> "rest", db |-> "ok", vector |-> "not asked", code |-> 0]
            ELSE [pc |-> "done", db |-> "failed", vector |-> "not asked", code |-> 503]]
    /\ UNCHANGED << upload, document_store, embeddings, points, task, log,
                   upsert_calls, metrics, status_req, search_req, call >>

\* get_collections(), the model check and the answer.
HealthRest ==
    /\ service.health.pc = "rest"
    /\ \E ok \in BOOLEAN :
        service' = [service EXCEPT !.health =
            [pc |-> "done", db |-> "ok",
             vector |-> IF ok /\ service.client THEN "ok" ELSE "failed",
             code |-> HealthCode(ok /\ service.client, service.model)]]
    /\ UNCHANGED << upload, document_store, embeddings, points, task, log,
                   upsert_calls, metrics, status_req, search_req, call >>

\* ------------------------------------------------------- specification

Next ==
    \/ \E file \in SampleFiles : UploadBegin(file)
    \/ \E r \in DocIds : UploadInsert(r)
    \/ \E r \in DocIds : UploadSchedule(r)
    \/ \E d \in DocIds : Extract(d)
    \/ \E d \in DocIds : Chunk(d)
    \/ \E d \in DocIds : Encode(d)
    \/ \E d \in DocIds : TxnUpdate(d)
    \/ \E d \in DocIds : TxnInsert(d)
    \/ \E d \in DocIds : TxnCommit(d)
    \/ \E d \in DocIds : Upsert(d)
    \/ \E d \in DocIds : HandleError(d)

Spec == Init /\ [][Next]_vars

\* The pipeline with status requests arriving at any time.
NextStatus ==
    \/ \E file \in SampleFiles : UploadWhileFew(file)
    \/ \E r \in DocIds : UploadInsert(r)
    \/ \E r \in DocIds : UploadSchedule(r)
    \/ \E d \in DocIds : Extract(d)
    \/ \E d \in DocIds : Chunk(d)
    \/ \E d \in DocIds : Encode(d)
    \/ \E d \in DocIds : TxnUpdate(d)
    \/ \E d \in DocIds : TxnInsert(d)
    \/ \E d \in DocIds : TxnCommit(d)
    \/ \E d \in DocIds : Upsert(d)
    \/ \E d \in DocIds : HandleError(d)
    \/ \E document_id \in DocIds : StatusFetchRow(document_id)
    \/ StatusCount

SpecStatus == Init /\ [][NextStatus]_vars

\* One direct call of chunk_text or of extract_text, on any of the inputs.
InitPure ==
    /\ InitService
    /\ points = {}
    /\ search_req = NoSearchRequest
    /\ service = Serving(EmbeddingDimension, EmbeddingDimension)
    /\ \/ call \in ChunkCalls
       \/ call \in ExtractCalls

NextPure ==
    \/ CallChunkText
    \/ CallExtractText

SpecPure == InitPure /\ [][NextPure]_vars

\* The call of chunk_text has returned.
Chunked == call.fn = "chunk_text" /\ call.pc = "done"

\* The units of a text: its pieces between dots, stripped, the empty ones
\* left out.
RECURSIVE Units(_)
Units(parts) ==
    IF parts = << >> THEN << >>
    ELSE IF Strip(parts[1]) = << >> THEN Units(Tail(parts))
    ELSE << Strip(parts[1]) >> \o Units(Tail(parts))

UnitsOf(text) == Units(Split(text))

\* The pipeline with search requests arriving at any time.
NextSearch ==
    \/ \E file \in SearchFiles : UploadWhileFew(file)
    \/ \E r \in DocIds : UploadInsert(r)
    \/ \E r \in DocIds : UploadSchedule(r)
    \/ \E d \in DocIds : Extract(d)
    \/ \E d \in DocIds : Chunk(d)
    \/ \E d \in DocIds : Encode(d)
    \/ \E d \in DocIds : TxnUpdate(d)
    \/ \E d \in DocIds : TxnInsert(d)
    \/ \E d \in DocIds : TxnCommit(d)
    \/ \E d \in DocIds : Upsert(d)
    \/ \E d \in DocIds : HandleError(d)
    \/ \E body \in SearchRequests : SearchBegin(body)
    \/ SearchStore

SpecSearch == Init /\ [][NextSearch]_vars

\* The process from its start: lifespan, then health requests, uploads and
\* their pipeline runs, under each configured embedding dimension.
InitStartup ==
    /\ InitService
    /\ points = {}
    /\ search_req = NoSearchRequest
    /\ call = NoCall
    /\ \E embedding_dimension \in ConfiguredDimensions :
           service = Down(embedding_dimension)

NextStartup ==
    \/ ConnectDb
    \/ ConnectVector
    \/ LoadModel
    \/ HealthDb
    \/ HealthRest
    \/ \E file \in SearchFiles : UploadWhileFew(file)
    \/ \E r \in DocIds : UploadInsert(r)
    \/ \E r \in DocIds : UploadSchedule(r)
    \/ \E d \in DocIds : Extract(d)
    \/ \E d \in DocIds : Chunk(d)
    \/ \E d \in DocIds : Encode(d)
    \/ \E d \in DocIds : TxnUpdate(d)
    \/ \E d \in DocIds : TxnInsert(d)
    \/ \E d \in DocIds : TxnCommit(d)
    \/ \E d \in DocIds : Upsert(d)
    \/ \E d \in DocIds : HandleError(d)

SpecStartup == InitStartup /\ [][NextStartup]_vars

\* --------------------------------------------------------------- claims

\* The committed chunk rows of document d.
RowsOf(d) == {e \in embeddings : e.document_id = d}

Did(d, step) == \E k \in DOMAIN log[d] : log[d][k] = step

\* C1: the persisted status of a document changes only from processing to
\* processed or from processing to error; a processed or error status is
\* never overwritten with a different value.
C1_StatusTransitions ==
    [][\A d \in DOMAIN document_store :
          document_store'[d].status # document_store[d].status
              => /\ document_store[d].status = "processing"
                 /\ document_store'[d].status \in {"processed", "error"}]_vars

\* C2: a vector-store upsert that fails after the relational commit is
\* swallowed: the document stays processed, also once the run has ended,
\* and its chunk rows stay in place.
C2_UpsertFailureSwallowed ==
    \A d \in DOMAIN document_store :
        task[d].exc = "upsert failed"
            => /\ document_store[d].status = "processed"
               /\ Cardinality(RowsOf(d)) = Len(task[d].chunks)

\* C3: a document whose persisted status is error has no chunk rows in the
\* relational store.
C3_ErrorHasNoChunks ==
    \A d \in DOMAIN document_store :
        document_store[d].status = "error" => RowsOf(d) = {}

\* C4: the document update and its chunk rows become visible together.  No
\* committed state has a processing document with chunk rows, or a processed
\* document with fewer rows than its run produced chunks; a transaction that
\* fails, also after some of its inserts, leaves no chunk row and the
\* document update undone.
C4_AtomicVisibility ==
    \A d \in DOMAIN document_store :
        /\ document_store[d].status = "processing" => RowsOf(d) = {}
        /\ document_store[d].status = "processed"
               => Cardinality(RowsOf(d)) = Len(task[d].chunks)
        /\ task[d].exc = "transaction failed"
               => /\ RowsOf(d) = {}
                  /\ document_store[d].content = NULL
                  /\ document_store[d].status # "processed"
                  /\ task[d].pc = "except"
                         => /\ document_store[d].status = "processing"
                            /\ document_store[d].processed_at = NULL

\* One document is processed with both of its chunk rows while the
\* transaction of another failed after the first of its two inserts.
C4_Witness ==
    \E d1, d2 \in DOMAIN document_store :
        /\ document_store[d1].status = "processed"
        /\ Cardinality(RowsOf(d1)) = 2
        /\ task[d2].exc = "transaction failed"
        /\ task[d2].i = 1
        /\ Len(task[d2].chunks) = 2

\* C5 as claimed: after a failed relational transaction the run leaves the
\* document in status processing.
C5_StaysProcessing ==
    \A d \in DOMAIN document_store :
        (task[d].pc = "done" /\ task[d].exc = "transaction failed")
            => document_store[d].status = "processing"

\* C5 as amended: a failed relational transaction aborts the whole write (no
\* chunk row, no extracted text, never processed by that run); the run's
\* error handler then sets status error, and the document stays processing
\* only if that update fails too.
C5_AbortedThenError ==
    \A d \in DOMAIN document_store :
        task[d].exc = "transaction failed"
            => /\ RowsOf(d) = {}
               /\ document_store[d].content = NULL
               /\ document_store[d].status # "processed"
               /\ upsert_calls[d] = << >>
               /\ task[d].pc = "done"
                      => /\ Did(d, "error_update") => document_store[d].status = "error"
                         /\ Did(d, "error_update_failed")
                                => document_store[d].status = "processing"
                         /\ Did(d, "error_update") \/ Did(d, "error_update_failed")

\* Two runs whose transaction failed have ended, one in error and one,
\* whose error update failed as well, in processing.
C5_Witness ==
    \E d1, d2 \in DOMAIN document_store :
        /\ task[d1].pc = "done" /\ task[d1].exc = "transaction failed"
        /\ document_store[d1].status = "error"
        /\ task[d2].pc = "done" /\ task[d2].exc = "transaction failed"
        /\ document_store[d2].status = "processing"

\* C6: the vector-store upsert is issued only after the relational
\* transaction has committed; a run whose transaction failed or was never
\* reached issues no upsert.
C6_UpsertAfterCommit ==
    \A d \in DocIds :
        /\ upsert_calls[d] # << >>
               => /\ d \in DOMAIN document_store
                  /\ document_store[d].content # NULL
                  /\ Cardinality(RowsOf(d)) = Len(upsert_calls[d][1])
                  /\ \E k \in DOMAIN log[d] :
                        /\ log[d][k] = "commit"
                        /\ \A j \in DOMAIN log[d] : log[d][j] = "upsert" => k < j
        /\ (Did(d, "rollback") \/ ~Did(d, "commit")) => upsert_calls[d] = << >>
        /\ Did(d, "upsert") <=> upsert_calls[d] # << >>

\* One run has issued its upsert while another, whose transaction rolled
\* back, has ended.
C6_Witness ==
    \E d1, d2 \in DocIds :
        /\ upsert_calls[d1] # << >>
        /\ Did(d2, "rollback")
        /\ task[d2].pc = "done"

\* C7: a document that reached status processed has as many chunk rows as
\* chunk_text produces on its stored text, with chunk_index 0..n-1, and its
\* single upsert call is passed the same number of points.
C7_ChunkCount ==
    \A d \in DOMAIN document_store :
        (document_store[d].status = "processed" \/ Did(d, "commit"))
            => LET n == Len(chunk_text(document_store[d].content[1], ChunkSize,
                                       ChunkOverlap))
               IN  /\ n > 0
                   /\ Cardinality(RowsOf(d)) = n
                   /\ {e.chunk_index : e \in RowsOf(d)} = 0..(n - 1)
                   /\ Len(upsert_calls[d]) <= 1
                   /\ \A k \in DOMAIN upsert_calls[d] : Len(upsert_calls[d][k]) = n

\* A processed document has two chunk rows and its upsert was passed two
\* points.
C7_Witness ==
    \E d \in DOMAIN document_store :
        /\ document_store[d].status = "processed"
        /\ Cardinality(RowsOf(d)) = 2
        /\ Len(upsert_calls[d]) = 1
        /\ Len(upsert_calls[d][1]) = 2

\* C8: after a run whose commit and upsert both succeeded, every chunk
\* identifier of the document in the relational store is the identifier of
\* a point in the vector store.
C8_SameChunkIds ==
    \A d \in DOMAIN document_store :
        (task[d].pc = "done" /\ task[d].exc = "none")
            => \A e \in RowsOf(d) : \E p \in points : p.id = e.id

\* The run of d ended before the writer: extraction raised, chunking gave
\* no chunk, or the embedder raised.
FailedBeforeWrite(d) ==
    \/ Did(d, "extract") /\ ~Did(d, "chunk")
          /\ task[d].exc = "HTTPException 400 Failed to extract text"
    \/ Did(d, "chunk") /\ task[d].chunks = << >>
    \/ Did(d, "encode") /\ task[d].exc = "encode failed"

\* C9 as claimed: such a run opens no transaction, calls no vector store
\* and ends with status error, a processed timestamp and no chunk row.
C9_EndsInError ==
    \A d \in DOMAIN document_store :
        (FailedBeforeWrite(d) /\ task[d].pc = "done")
            => /\ ~Did(d, "transaction")
               /\ upsert_calls[d] = << >>
               /\ RowsOf(d) = {}
               /\ document_store[d].status = "error"
               /\ document_store[d].processed_at # NULL

\* C9 as amended: such a run opens no transaction, calls no vector store
\* and persists no chunk; it ends with status error and a processed
\* timestamp when the handler's status update succeeds, and with status
\* processing and no timestamp when that update fails.
C9_NoWriteThenError ==
    \A d \in DOMAIN document_store :
        FailedBeforeWrite(d)
            => /\ ~Did(d, "transaction")
               /\ upsert_calls[d] = << >>
               /\ RowsOf(d) = {}
               /\ document_store[d].content = NULL
               /\ task[d].pc \in {"except", "done"}
               /\ task[d].pc = "done"
                      => /\ Did(d, "error_update")
                             => /\ document_store[d].status = "error"
                                /\ document_store[d].processed_at # NULL
                         /\ Did(d, "error_update_failed")
                             => /\ document_store[d].status = "processing"
                                /\ document_store[d].processed_at = NULL
                         /\ Did(d, "error_update") \/ Did(d, "error_update_failed")

\* The run of a 0-byte upload has ended in error, and the run of an upload
\* whose extraction raised has ended with its error update failed.
C9_Witness ==
    \E d1, d2 \in DOMAIN document_store :
        /\ upload[d1].file.bytes = << >>
        /\ task[d1].pc = "done" /\ Did(d1, "chunk")
        /\ document_store[d1].status = "error"
        /\ ~extract_text(upload[d2].file).ok
        /\ task[d2].pc = "done" /\ Did(d2, "error_update_failed")

\* C10: the processing row is inserted before the pipeline task is
\* scheduled, the acknowledgment is there as soon as the task is scheduled
\* (it does not wait for the run), and an upload whose insert failed gets a
\* 500 and no task.
C10_InsertBeforeSchedule ==
    \A r \in DocIds :
        /\ task[r].pc # "none" => r \in DOMAIN document_store
        /\ task[r].pc # "none" <=> upload[r].response = "processing"
        /\ upload[r].pc = "schedule" => r \in DOMAIN document_store
        /\ (upload[r].pc = "done" /\ ~TooLarge(upload[r].file)
                /\ r \notin DOMAIN document_store)
               => upload[r].response = "500" /\ task[r].pc = "none"
        /\ upload[r].response = "500" => task[r].pc = "none"

\* One upload is acknowledged while its run has not started; another got a
\* 500 and has no task.
C10_Witness ==
    \E r, q \in DocIds :
        /\ upload[r].response = "processing"
        /\ task[r].pc = "scheduled"
        /\ upload[q].response = "500"
        /\ task[q].pc = "none"
        /\ q \notin DOMAIN document_store

\* C11: every upload whose body is longer than the configured maximum is
\* rejected with the size-limit error before anything else happens: it has
\* no Document row and no pipeline task, whether or not it declares its size.
C11_OversizeRejected ==
    \A r \in DocIds :
        (upload[r].pc # "none" /\ Len(upload[r].file.bytes) > MaxFileSize)
            => /\ upload[r].response = "413"
               /\ r \notin DOMAIN document_store
               /\ task[r].pc = "none"

\* C12: the status endpoint answers 404 exactly when its lookup finds no
\* Document row with the identifier; otherwise it returns the status that
\* row holds and chunks_processed equal to the number of chunk rows of the
\* identifier (a query that raises gives a 500 instead).
C12_StatusAnswer ==
    [][ status_req' # status_req =>
          LET id == status_req'.document_id
              resp == status_req'.response
          IN  IF status_req.pc # "count"
              THEN /\ resp.code = 404 => id \notin DOMAIN document_store
                   /\ id \notin DOMAIN document_store
                        => status_req'.pc = "done" /\ resp.code \in {404, 500}
                   /\ id \in DOMAIN document_store
                        => \/ status_req'.pc = "done" /\ resp.code = 500
                           \/ /\ status_req'.pc = "count"
                              /\ status_req'.row = << document_store[id] >>
              ELSE /\ status_req'.pc = "done"
                   /\ id = status_req.document_id
                   /\ \/ resp.code = 500
                      \/ /\ resp.code = 200
                         /\ resp.document_id = id
                         /\ resp.status = << status_req.row[1].status >>
                         /\ resp.chunks_processed = Cardinality(RowsOf(id))
    ]_vars

\* A status request for a processed document was answered with its status
\* and its two chunks.
C12_Witness ==
    /\ status_req.pc = "done"
    /\ status_req.response.code = 200
    /\ status_req.response.status = << "processed" >>
    /\ status_req.response.chunks_processed = 2
    /\ Cardinality(RowsOf(status_req.document_id)) = 2

\* C13: the chunks chunk_text returns carry the index values 0, 1, ..., n-1
\* in output order.
C13_DenseIndex ==
    Chunked => \A k \in DOMAIN call.result : call.result[k].index = k - 1

\* A call on a non-empty text has returned three chunks or more.
C13_Witness ==
    Chunked /\ Len(call.result) >= 3

\* C14: chunk_text returns the empty sequence for the empty string and for
\* every text made of whitespace only, whatever chunk_size and overlap.
C14_BlankGivesNothing ==
    (Chunked /\ \A i \in DOMAIN call.text : call.text[i] = " ")
        => call.result = << >>

\* A call on a text of several blanks, with a positive overlap, has returned
\* nothing.
C14_Witness ==
    /\ Chunked
    /\ Len(call.text) >= 2
    /\ \A i \in DOMAIN call.text : call.text[i] = " "
    /\ call.result = << >>
    /\ call.overlap > 0

\* C15: a text with non-whitespace content that is shorter than chunk_size
\* gives exactly one chunk, with index 0, whose text is the input stripped,
\* also when the input ends in a dot or holds several sentences.
C15_ShortTextOneChunk ==
    (Chunked /\ Strip(call.text) # << >> /\ Len(call.text) < call.chunk_size)
        => /\ Len(call.result) = 1
           /\ call.result[1].index = 0
           /\ call.result[1].text = Strip(call.text)

\* Concatenation of a sequence of sequences.
RECURSIVE Flatten(_)
Flatten(seqs) ==
    IF seqs = << >> THEN << >> ELSE seqs[1] \o Flatten(Tail(seqs))

\* The units of each chunk of the result, chunk by chunk.
ChunkUnits == [k \in DOMAIN call.result |-> UnitsOf(call.result[k].text)]

\* C16: with overlap 0 the chunks do not overlap: their units, one chunk
\* after the other, are the units of the text, none of them twice.
C16_NoOverlapPartition ==
    (Chunked /\ call.overlap = 0) => Flatten(ChunkUnits) = UnitsOf(call.text)

\* The last n elements of a sequence (all of it when it is shorter).
Trailing(seq, n) == SubSeq(seq, Len(seq) - Min(n, Len(seq)) + 1, Len(seq))

\* C17: with overlap k > 0 every chunk after the first begins with the last
\* min(k, m) units of the previous chunk, m being the number of units of
\* that chunk, in the same order, followed by the unit that did not fit
\* into it; the carry-over is counted in units, not characters.
C17_CarryOver ==
    (Chunked /\ call.overlap > 0) =>
        \A j \in 2..Len(call.result) :
            LET prev == ChunkUnits[j - 1]
                cur == ChunkUnits[j]
                h == Min(call.overlap, Len(prev))
                trigger == Strip(Split(call.text)[call.result[j - 1].end_sentence + 1])
            IN  /\ Len(cur) >= h + 1
                /\ SubSeq(cur, 1, h) = Trailing(prev, h)
                /\ cur[h + 1] = trigger

\* A call with overlap 1 has returned a third chunk that starts with the
\* last of the two different units of the second.
C17_Witness ==
    /\ Chunked /\ call.overlap = 1
    /\ Len(call.result) >= 3
    /\ Len(ChunkUnits[2]) = 2
    /\ ChunkUnits[2][1] # ChunkUnits[2][2]
    /\ ChunkUnits[3][1] = ChunkUnits[2][2]

\* The units of the text that are longer than chunk_size.
Oversized == { p \in DOMAIN UnitsOf(call.text) : Len(UnitsOf(call.text)[p]) > call.chunk_size }

\* C18 as claimed: a unit longer than chunk_size is in some chunk, whole,
\* and every chunk that contains it contains no other unit, wherever the
\* unit stands in the text.
C18_OversizedAlone ==
    Chunked =>
        \A p \in Oversized :
            LET u == UnitsOf(call.text)[p] IN
            /\ \E k \in DOMAIN ChunkUnits : u \in Range(ChunkUnits[k])
            /\ \A k \in DOMAIN ChunkUnits :
                   u \in Range(ChunkUnits[k]) => ChunkUnits[k] = << u >>

\* C18: a unit longer than chunk_size is never split or truncated and
\* nothing is appended after it: it is the last unit of some chunk, whole.
\* Before it that chunk holds only units carried over from the end of the
\* previous chunk (the last min(overlap, m) of its m units when overlap > 0),
\* so the unit is alone only in the first chunk.
C18_OversizedClosesChunk ==
    Chunked =>
        \A p \in Oversized :
            LET u == UnitsOf(call.text)[p] IN
            \E k \in DOMAIN ChunkUnits :
                LET cur == ChunkUnits[k]
                    h == Len(cur) - 1
                IN  /\ cur[Len(cur)] = u
                    /\ k = 1 => h = 0
                    /\ k > 1 =>
                        /\ h <= Len(ChunkUnits[k - 1])
                        /\ SubSeq(cur, 1, h) = Trailing(ChunkUnits[k - 1], h)
                        /\ call.overlap > 0
                              => h = Min(call.overlap, Len(ChunkUnits[k - 1]))

\* A call with overlap 1 has returned a chunk that ends with an oversized
\* unit, not the first of the text, and starts with a unit carried over.
C18_Witness ==
    /\ Chunked /\ call.overlap = 1
    /\ \E p \in Oversized :
        /\ p > 1
        /\ \E k \in DOMAIN ChunkUnits :
            /\ k > 1
            /\ Len(ChunkUnits[k]) = 2
            /\ ChunkUnits[k][2] = UnitsOf(call.text)[p]
            /\ ChunkUnits[k][1] # ChunkUnits[k][2]

\* The call of extract_text has returned or raised.
Extracted == call.fn = "extract_text" /\ call.pc = "done"

\* The extension is one extract_text has a branch for.
Recognised(file) ==
    FileExt(file.filename) \in
        { << "p", "d", "f" >>, << "d", "o", "c", "x" >>, << "d", "o", "c" >>,
          << "t", "x", "t" >>, << "m", "d" >> }

\* C19: on an unknown extension extract_text tries the UTF-8 decode and,
\* when that fails, fails with the unsupported-format error, an outcome
\* other than the failed-extraction error that malformed content of a
\* recognised format gives; on any failure no text is returned.
C19_UnsupportedDistinct ==
    Extracted =>
        LET file == call.file
            r == call.result
        IN  /\ (~Recognised(file) /\ Decode(file.bytes).ok)
                 => r.ok /\ r.text = Decode(file.bytes).text
            /\ (~Recognised(file) /\ ~Decode(file.bytes).ok)
                 => ~r.ok /\ r.exc = "HTTPException 400 Unsupported file format"
            /\ (Recognised(file) /\ ~r.ok)
                 => r.exc = "HTTPException 400 Failed to extract text"
            /\ ~r.ok => r.text = << >>

\* C20: given a vector store that honours its search contract, a search
\* answered 200 returns at most limit results, each with a score of at
\* least the threshold, in descending order of score, and they are the
\* store's hits in the order received, none added, dropped or moved; an
\* empty hit list gives an empty 200 result.
C20_SearchResults ==
    (search_req.pc = "done" /\ search_req.response.code = 200) =>
        LET results == search_req.response.results
            hits == search_req.hits
        IN  /\ Len(results) <= search_req.limit
            /\ \A k \in DOMAIN results :
                   results[k].similarity_score >= search_req.threshold
            /\ \A i, j \in DOMAIN results :
                   i < j => results[i].similarity_score >= results[j].similarity_score
            /\ Len(results) = Len(hits)
            /\ \A k \in DOMAIN hits :
                   /\ results[k].document_id = hits[k].payload.document_id
                   /\ results[k].filename = hits[k].payload.filename
                   /\ results[k].chunk_text = hits[k].payload.chunk_text
                   /\ results[k].metadata = hits[k].payload.metadata
                   /\ results[k].similarity_score = hits[k].score

\* A search with limit 1 over a collection of two points that both pass the
\* threshold was answered with the one of the higher score.
C20_Witness ==
    /\ search_req.pc = "done" /\ search_req.response.code = 200
    /\ search_req.limit = 1
    /\ Len(search_req.response.results) = 1
    /\ \E p \in points :
           LET score == Score(search_req.query_embedding[1], p.vector) IN
           /\ score >= search_req.threshold
           /\ score < search_req.response.results[1].similarity_score

\* C21: a search request with no query, a limit outside 1..100 or a
\* threshold outside 0.0..1.0 is answered 422 before the embedder or the
\* vector store is called, and no other request is; a limit and a
\* threshold left out of the body are taken as 10 and 0.7.
C21_SearchValidation ==
    search_req.pc # "idle" =>
        LET body == search_req.body
            invalid ==
                \/ body.query = NULL
                \/ body.limit # NULL /\ (body.limit[1] < 1 \/ body.limit[1] > 100)
                \/ body.threshold # NULL
                     /\ (body.threshold[1] < 0 \/ body.threshold[1] > 10)
        IN  /\ invalid => /\ search_req.pc = "done"
                          /\ search_req.response.code = 422
                          /\ search_req.calls = << >>
            /\ search_req.response.code = 422 => invalid
            /\ ~invalid => search_req.calls # << >> /\ search_req.calls[1] = "encode"
            /\ body.limit = NULL => search_req.limit = 10
            /\ body.threshold = NULL => search_req.threshold = 7

\* A request with limit 101 was answered 422 with no call made.
C21_Witness ==
    /\ search_req.pc = "done"
    /\ search_req.body.limit = << 101 >>
    /\ search_req.response.code = 422
    /\ search_req.calls = << >>

\* C22: the health endpoint answers 200 if and only if the relational
\* query succeeded, the vector store answered and the embedding model is
\* loaded; if any of the three checks fails it answers 503.
C22_HealthAnswer ==
    service.health.pc = "done" =>
        /\ service.health.code \in {200, 503}
        /\ service.health.code = 200 <=>
               /\ service.health.db = "ok"
               /\ service.health.vector = "ok"
               /\ service.model # NULL

\* A health request was answered 503 because the vector store did not
\* answer, the relational query having succeeded.
C22_Witness ==
    /\ service.health.pc = "done"
    /\ service.health.db = "ok"
    /\ service.health.vector = "failed"
    /\ service.health.code = 503

\* C23: the service begins to serve requests only if the configured
\* embedding dimension equals the length of the vectors the loaded model
\* gives; under a mismatch startup fails, so no upload is ever accepted and
\* no pipeline run ever meets the mismatch.
C23_StartupChecksDimension ==
    service.embedding_dimension # EmbeddingDimension =>
        /\ service.pc # "serving"
        /\ \A d \in DocIds : upload[d].pc = "none" /\ task[d].pc = "none"

\* The pipeline steps in their order, and those a run has executed.
PipelineSteps == << "extract", "chunk", "encode", "transaction", "upsert" >>
IsStep(entry) == \E k \in DOMAIN PipelineSteps : PipelineSteps[k] = entry
StepsOf(d) == SelectSeq(log[d], IsStep)

\* The steps of run d are the first ones of the pipeline, each once and
\* each after the success of the one before; the embedder and the vector
\* store were called at most once, with all chunks.
StepsInOrder(d) ==
    /\ Len(StepsOf(d)) <= Len(PipelineSteps)
    /\ StepsOf(d) = SubSeq(PipelineSteps, 1, Len(StepsOf(d)))
    /\ Did(d, "chunk") => extract_text(upload[d].file).ok
    /\ Did(d, "encode") => task[d].chunks # << >>
    /\ Did(d, "transaction") =>
           /\ Len(task[d].embeddings) = Len(task[d].chunks)
           /\ \A k \in DOMAIN task[d].chunks :
                  task[d].embeddings[k] = Vector(task[d].chunks[k].text)
    /\ Did(d, "upsert") => Did(d, "commit")
    /\ Len(upsert_calls[d]) <= 1
    /\ Did(d, "upsert") <=> Len(upsert_calls[d]) = 1
    /\ \A c \in DOMAIN upsert_calls[d] :
           Len(upsert_calls[d][c]) = Len(task[d].chunks)

\* C24: within one pipeline run the executed steps are a prefix of extract,
\* chunk, embed (one call with all chunk texts), relational transaction,
\* upsert (one call with all points): each step starts after the previous
\* one succeeded and runs once; a run that has ended, failed or not,
\* executes nothing more and no run is scheduled again for its identifier.
C24_StepsOnceInOrder ==
    [][ \A d \in DocIds :
          /\ StepsInOrder(d)'
          /\ task[d].pc = "done" => task'[d] = task[d] /\ log'[d] = log[d]
          /\ (task[d].pc # "none" /\ task[d].pc # "scheduled")
                => task'[d].pc # "scheduled"
          /\ task[d].exc # "none" => StepsOf(d)' = StepsOf(d)
      ]_vars

\* One run has executed all five steps; another failed at the embedding and
\* has ended after extract, chunk, encode.
C24_Witness ==
    \E d, e \in DocIds :
        /\ task[d].pc = "done" /\ StepsOf(d) = PipelineSteps
        /\ task[e].pc = "done" /\ task[e].exc = "encode failed"
        /\ StepsOf(e) = << "extract", "chunk", "encode" >>

\* C25: chunk_text closes the current chunk before a unit exactly when the
\* buffer is not empty and its length with that unit appended, the ". "
\* that joins them included, would exceed chunk_size. For the first chunk,
\* whose buffer grows by appends only: if a second chunk follows, the unit
\* that opened it would not have fitted, and if the first chunk holds two
\* or more units its text is at most chunk_size characters long.
C25_ClosesWhenTooLong ==
    (Chunked /\ Len(call.result) >= 1) =>
        LET first == call.result[1].text
            units == UnitsOf(call.text)
            next == units[Len(ChunkUnits[1]) + 1]
        IN  /\ Len(call.result) >= 2 => Len(first) + 2 + Len(next) > call.chunk_size
            /\ Len(ChunkUnits[1]) >= 2 => Len(first) <= call.chunk_size

\* The Document row or the chunk rows of identifier id change in this step.
RowsWritten(id) ==
    \/ /\ id \in DOMAIN document_store'
       /\ id \notin DOMAIN document_store \/ document_store'[id] # document_store[id]
    \/ {e \in embeddings' : e.document_id = id} # RowsOf(id)

\* C26: with uploads and pipeline runs interleaved, each identifier has at
\* most one run: a run is started once for its identifier, what
\* it stages and writes are rows of that identifier only, and the status,
\* text, timestamp and chunk rows of an identifier are written by its own
\* upload and its own run, never by those of another identifier.
C26_OneWriterPerDocument ==
    [][ \A id \in DocIds :
          /\ (task'[id].pc = "scheduled" /\ task[id].pc # "scheduled")
                => task[id].pc = "none" /\ log[id] = << >>
          /\ \A k \in DOMAIN task'[id].rows : task'[id].rows[k].document_id = id
          /\ RowsWritten(id) =>
                /\ \A d \in DocIds \ {id} : task'[d] = task[d] /\ upload'[d] = upload[d]
                /\ id \in DOMAIN document_store => task'[id] # task[id]
      ]_vars

\* Two runs have their transactions open at the same time, each with rows
\* staged, while the Document row of each is still as its upload wrote it.
C26_Witness ==
    \E d, e \in DocIds :
        /\ d # e
        /\ task[d].pc = "insert" /\ Len(task[d].rows) >= 1
        /\ task[e].pc = "insert" /\ Len(task[e].rows) >= 1
        /\ document_store[d].status = "processing"
        /\ document_store[e].status = "processing"


\* C27: a status response reflects one committed relational state: a 200
\* answer never pairs status "processing" with a positive chunks_processed,
\* also when the run's transaction commits while the request is being served.
C27_StatusOneSnapshot ==
    (status_req.pc = "done" /\ status_req.response.code = 200
        /\ status_req.response.status = Some("processing"))
      => status_req.response.chunks_processed = 0


\* C28: a run ends without propagating an exception whatever step failed,
\* and when the update that records status error itself failed, the failure
\* is swallowed and the Document is in status processing from then on, with
\* nothing further executed for it.
C28_FailedErrorUpdateStaysProcessing ==
    \A d \in DOMAIN document_store :
        /\ task[d].exc # "none" => task[d].pc \in {"except", "done"}
        /\ Did(d, "error_update_failed")
              => /\ task[d].pc = "done"
                 /\ log[d][Len(log[d])] = "error_update_failed"
                 /\ document_store[d].status = "processing"


\* The text has no character other than dots and whitespace.
OnlyDotsAndSpace(text) == \A i \in DOMAIN text : text[i] = "." \/ IsSpace(text[i])

\* The run of d has chunked its text.
HasChunked(d) == Did(d, "chunk")

\* C29 as claimed: chunk_text gives no chunk exactly when the text has no
\* unit with content between its dots, so also for a text of dots and
\* whitespace only, and the document of such a text ends in status error
\* with zero chunks.
C29_NoContentEndsInError ==
    \A d \in DOMAIN document_store :
        HasChunked(d)
            => /\ chunk_text(task[d].text, ChunkSize, ChunkOverlap) = << >>
                     <=> OnlyDotsAndSpace(task[d].text)
               /\ (OnlyDotsAndSpace(task[d].text) /\ task[d].pc = "done")
                     => /\ document_store[d].status = "error"
                        /\ RowsOf(d) = {}

\* C29 as amended: chunk_text gives no chunk exactly when the text has no
\* unit with content between its dots, so also for a text of dots and
\* whitespace only; the run of such a text fails at the chunk step, writes
\* no chunk row and no point, and the document ends in status error when
\* the handler's status update succeeds and stays in status processing when
\* that update fails.
C29_NoContentNoChunks ==
    \A d \in DOMAIN document_store :
        HasChunked(d)
            => /\ chunk_text(task[d].text, ChunkSize, ChunkOverlap) = << >>
                     <=> OnlyDotsAndSpace(task[d].text)
               /\ OnlyDotsAndSpace(task[d].text)
                     => /\ task[d].chunks = << >>
                        /\ task[d].exc = "No text content found in document"
                        /\ log[d][Len(log[d])] \in {"chunk", "error_update", "error_update_failed"}
                        /\ RowsOf(d) = {}
                        /\ upsert_calls[d] = << >>
                        /\ task[d].pc = "done"
                             => /\ Did(d, "error_update")
                                    => document_store[d].status = "error"
                                /\ Did(d, "error_update_failed")
                                    => document_store[d].status = "processing"
                                /\ Did(d, "error_update") \/ Did(d, "error_update_failed")

\* The run of a text of dots and blanks that is not blank has ended in
\* error, and the run of a text with content has produced chunks.
C29_Witness ==
    \E d, e \in DOMAIN document_store :
        /\ task[d].text = DotsText
        /\ Strip(task[d].text) # << >>
        /\ task[d].pc = "done"
        /\ document_store[d].status = "error"
        /\ HasChunked(e) /\ task[e].chunks # << >>


\* The runs that have started and not ended, and the runs that have ended.
InFlight == {d \in DocIds : task[d].pc \notin {"none", "scheduled", "done"}}
Finished == {d \in DocIds : task[d].pc = "done"}

\* The uploads answered 500, which the error counter counts as well.
FailedUploads == {r \in DocIds : upload[r].response = "500"}

\* C30: the active-process gauge is the number of runs started and not yet
\* ended, so it is never negative and is 0 when no run is in flight; every
\* step moves it by the runs that start minus the runs that end, on success
\* and on every failure path; and each ended run has been counted once, in
\* the success counter when it raised nothing and in the error counter
\* otherwise (the error counter counts the uploads answered 500 besides).
C30_GaugeCountsRunsInFlight ==
    /\ metrics.active = Cardinality(InFlight)
    /\ metrics.active >= 0
    /\ metrics.success = Cardinality({d \in Finished : task[d].exc = "none"})
    /\ metrics.error = Cardinality({d \in Finished : task[d].exc # "none"})
                          + Cardinality(FailedUploads)

\* One run has ended with its error update failed while another is in its
\* transaction or at the upsert: the gauge stands at 1, the error counter
\* at 1.
C30_Witness ==
    \E d, e \in DocIds :
        /\ d # e
        /\ task[d].pc = "done" /\ Did(d, "error_update_failed")
        /\ Did(e, "extract") /\ task[e].pc \in {"insert", "upsert"}
        /\ metrics.active = 1
        /\ metrics.error = 1

====
